---- MODULE Spec2Model ----
(***************************************************************************)
(* Model of src/app.py: a Streamlit script that gates a profit/loss        *)
(* analysis behind a login form.  Every user interaction re-executes the   *)
(* script top to bottom; the model follows one browser session through     *)
(* the sections of the script (pc is the position inside the current run). *)
(*                                                                         *)
(* Modelling conventions                                                   *)
(*  - a Python str is a sequence of one-character strings, so that         *)
(*    str.lower() and the substring test `in` are computed, not assumed;   *)
(*  - a cell of the uploaded table is a tagged value (number, text, date   *)
(*    text, blank); pandas' coercions map it to a number / timestamp or    *)
(*    to the missing values NaN / NaT;                                     *)
(*  - amounts are integers and sums are exact (float rounding and int64    *)
(*    wrap-around are outside the model); a timestamp is a day number;     *)
(*  - bcrypt is a salted one-way function, taken to be collision free on   *)
(*    the passwords of the model (all shorter than bcrypt's 72 bytes).     *)
(***************************************************************************)
EXTENDS Integers, Sequences, FiniteSets, TLC

VARIABLES
    users,      \* table users of users.db: a set of rows (email, password hash)
    firstReg,   \* history: email -> password of its first successful create_user
    session,    \* st.session_state: a function on a subset of {"logged_in","user"}
    pc,         \* position of the current script run ("idle": waiting for the user)
    event,      \* the widget interaction that triggered the current run
    file,       \* the upload returned by st.file_uploader in the current run
    df,         \* the DataFrame of the current run
    mapping,    \* role -> selected column name
    out,        \* what the current run has put on the page so far
    rcols,      \* find_column applied on its own: argument cols
    rkeys,      \* find_column applied on its own: argument keys
    rres        \* find_column applied on its own: call state and result

appVars == <<users, firstReg, session, pc, event, file, df, mapping, out>>
resolverVars == <<rcols, rkeys, rres>>
vars == <<users, firstReg, session, pc, event, file, df, mapping, out,
          rcols, rkeys, rres>>

----------------------------------------------------------------------------
(* Bounds of the model *)

MaxResolveCols == 3     \* columns of a header given to find_column on its own
MaxRows == 3            \* rows of an uploaded table built from RowPalette
MaxLossRows == 6        \* rows of an uploaded table of the loss-ranking family

----------------------------------------------------------------------------
(* Strings *)

\* Python's None, of the same shape as a str and different from every str
None == <<"None">>

UPPER == <<"A","B","C","D","E","F","G","H","I","J","K","L","M",
           "N","O","P","Q","R","S","T","U","V","W","X","Y","Z">>
LOWER == <<"a","b","c","d","e","f","g","h","i","j","k","l","m",
           "n","o","p","q","r","s","t","u","v","w","x","y","z">>

LowerChar(ch) ==
    IF \E i \in 1..Len(UPPER) : UPPER[i] = ch
    THEN LOWER[CHOOSE i \in 1..Len(UPPER) : UPPER[i] = ch]
    ELSE ch

\* str.lower()
Lower(s) == [i \in 1..Len(s) |-> LowerChar(s[i])]

\* Python's  k in s  on strings: k is a contiguous substring of s
Contains(k, s) ==
    \E i \in 0..(Len(s) - Len(k)) : \A j \in 1..Len(k) : s[i + j] = k[j]

\* Column names
nOrderDate == <<"O","r","d","e","r"," ","D","a","t","e">>
nSales == <<"S","a","l","e","s">>
nRevenue == <<"R","E","V","E","N","U","E">>
nAmount == <<"A","m","o","u","n","t">>
nProfit == <<"P","r","o","f","i","t">>
nNetProfit == <<"N","e","t"," ","P","r","o","f","i","t">>
nMargin == <<"M","a","r","g","i","n">>
nCategory == <<"C","a","t","e","g","o","r","y">>
nSegment == <<"S","e","g","m","e","n","t">>
nProduct == <<"P","r","o","d","u","c","t">>
nProductCategory == <<"P","r","o","d","u","c","t"," ","C","a","t","e","g","o","r","y">>
nItem == <<"I","t","e","m">>
nName == <<"N","a","m","e">>
nQty == <<"Q","t","y">>
nDate == <<"D","a","t","e">>

\* Keywords
kDate == <<"d","a","t","e">>
kSales == <<"s","a","l","e","s">>
kRevenue == <<"r","e","v","e","n","u","e">>
kAmount == <<"a","m","o","u","n","t">>
kProfit == <<"p","r","o","f","i","t">>
kMargin == <<"m","a","r","g","i","n">>
kCategory == <<"c","a","t","e","g","o","r","y">>
kSegment == <<"s","e","g","m","e","n","t">>
kProduct == <<"p","r","o","d","u","c","t">>
kItem == <<"i","t","e","m">>
kName == <<"n","a","m","e">>
kDATE == <<"D","A","T","E">>

----------------------------------------------------------------------------
(* SMART COLUMN DETECTOR *)

Roles == <<"date", "sales", "profit", "category", "product">>
RoleSet == {Roles[i] : i \in 1..Len(Roles)}

\* the keys argument of the five find_column calls of the column mapping
RoleKeys(role) ==
    CASE role = "date" -> <<kDate>>
      [] role = "sales" -> <<kSales, kRevenue>>
      [] role = "profit" -> <<kProfit>>
      [] role = "category" -> <<kCategory>>
      [] role = "product" -> <<kProduct, kItem>>

\* the inner loop: some k of keys has k.lower() in col.lower()
AnyKeyIn(keys, col) ==
    \E j \in 1..Len(keys) : Contains(Lower(keys[j]), Lower(col))

RECURSIVE FindFrom(_, _, _)
FindFrom(cols, keys, i) ==
    IF i > Len(cols) THEN None
    ELSE IF AnyKeyIn(keys, cols[i]) THEN cols[i]
    ELSE FindFrom(cols, keys, i + 1)

\* (mutation) the loops swapped: the first keyword found in any column wins
RECURSIVE FindByKey(_, _, _)
FindByKey(cols, keys, j) ==
    IF j > Len(keys) THEN None
    ELSE IF \E i \in 1..Len(cols) : Contains(Lower(keys[j]), Lower(cols[i]))
         THEN cols[CHOOSE i \in 1..Len(cols) :
                     /\ Contains(Lower(keys[j]), Lower(cols[i]))
                     /\ \A h \in 1..(i - 1) : ~Contains(Lower(keys[j]), Lower(cols[h]))]
         ELSE FindByKey(cols, keys, j + 1)

find_column_key_order(cols, keys) == FindByKey(cols, keys, 1)

\* (mutation) the comparison made without .lower()
RECURSIVE FindCased(_, _, _)
FindCased(cols, keys, i) ==
    IF i > Len(cols) THEN None
    ELSE IF \E j \in 1..Len(keys) : Contains(keys[j], cols[i]) THEN cols[i]
    ELSE FindCased(cols, keys, i + 1)

find_column_cased(cols, keys) == FindCased(cols, keys, 1)

find_column(cols, keys) == FindFrom(cols, keys, 1)


----------------------------------------------------------------------------
(* DATABASE and AUTH FUNCTIONS *)

Emails == {"ann@x", "bob@x"}
Passwords == {"pw1", "pw2"}
Salts == {"s1", "s2"}           \* outcomes of bcrypt.gensalt()

NoHistory == [e \in {} |-> None]

\* bcrypt.hashpw(password.encode(), salt): the salt is kept in the hash; the
\* digest is a collision-free function of salt and password
hashpw(password, salt) == [salt |-> salt, digest |-> <<"bcrypt", salt, password>>]

\* (mutation) a check that only looks at the salt
checkpw_any(password, hashed) == hashed.salt \in Salts

\* bcrypt.checkpw(password.encode(), hashed): re-hash with the stored salt
checkpw(password, hashed) == hashpw(password, hashed.salt) = hashed

\* the rows of the table with this email
RowsOf(table, email) == {r \in table : r.email = email}

\* (mutation) INSERT OR REPLACE: a second registration overwrites the first
create_user_replace(table, email, password, salt) ==
    [ok |-> TRUE,
     table |-> (table \ RowsOf(table, email))
                  \cup {[email |-> email, password |-> hashpw(password, salt)]}]

\* create_user: INSERT INTO users; email is the PRIMARY KEY, so the INSERT of
\* a registered email raises and the bare except returns False
create_user(table, email, password, salt) ==
    IF RowsOf(table, email) # {}
    THEN [ok |-> FALSE, table |-> table]
    ELSE [ok |-> TRUE,
          table |-> table \cup {[email |-> email, password |-> hashpw(password, salt)]}]

\* login_user: SELECT password FROM users WHERE email=?; fetchone();
\* data and bcrypt.checkpw(...)
login_user(table, email, password) ==
    /\ RowsOf(table, email) # {}
    /\ checkpw(password, (CHOOSE r \in RowsOf(table, email) : TRUE).password)

----------------------------------------------------------------------------
(* The uploaded table *)

\* cells as read from the file
Num(v) == [kind |-> "num", v |-> v]
Text(id) == [kind |-> "text", v |-> id]     \* text; v orders the texts alphabetically
DateText(day) == [kind |-> "date", v |-> day]   \* the text of a calendar date
Blank == [kind |-> "blank", v |-> 0]
\* cells made by the coercions
Ts(day) == [kind |-> "ts", v |-> day]       \* a Timestamp, as days since 1970-01-01
NaN == [kind |-> "nan", v |-> 0]
NaT == [kind |-> "nat", v |-> 0]

\* the int64 view of NaT (the minimum int64), in the day unit of Ts
iNaT == -106752

\* pd.to_datetime(errors="coerce") on one cell: a number counts nanoseconds
\* from the epoch, unparseable text becomes NaT
ToDatetime(c) ==
    CASE c.kind = "date" -> Ts(c.v)
      [] c.kind = "num" -> Ts(IF c.v >= 0 THEN 0 ELSE -1)
      [] c.kind = "ts" -> c
      [] OTHER -> NaT

\* pd.to_numeric(errors="coerce") on one cell: unparseable text becomes NaN;
\* a datetime column is returned as its int64 view
ToNumeric(c) ==
    CASE c.kind = "num" -> c
      [] c.kind = "ts" -> Num(c.v)
      [] c.kind = "nat" -> Num(iNaT)
      [] OTHER -> NaN

\* pandas' isna
IsNa(c) == c.kind \in {"nan", "nat", "blank"}

NoDf == [cols |-> <<>>, dtypes |-> <<>>, rows |-> <<>>]

\* pd.read_csv / pd.read_excel deliver the frame; its columns are as read
ReadFile(f) ==
    [cols |-> f.cols,
     dtypes |-> [i \in 1..Len(f.cols) |-> "read"],
     rows |-> f.rows]

\* cols.index(name)
Index(cols, name) == CHOOSE i \in 1..Len(cols) : cols[i] = name

\* the coercion that makes a column of dtype dt
CoerceCell(c, dt) == IF dt = "datetime64" THEN ToDatetime(c) ELSE ToNumeric(c)

\* df[name] = pd.to_datetime(df[name], ...) or pd.to_numeric(df[name], ...):
\* the column is replaced by its coercion to dtype dt
AssignCol(frame, name, dt) ==
    LET j == Index(frame.cols, name) IN
    [cols |-> frame.cols,
     dtypes |-> [i \in 1..Len(frame.cols) |-> IF i = j THEN dt ELSE frame.dtypes[i]],
     rows |-> [r \in 1..Len(frame.rows) |->
                 [i \in 1..Len(frame.cols) |->
                    IF i = j THEN CoerceCell(frame.rows[r][i], dt)
                    ELSE frame.rows[r][i]]]]

\* lines 127-129
Coerce(frame, m) ==
    AssignCol(
        AssignCol(
            AssignCol(frame, m["date"], "datetime64"),
            m["sales"], "numeric"),
        m["profit"], "numeric")

\* the value of row in column name
Cell(frame, row, name) == row[Index(frame.cols, name)]

\* (mutation) dropna(how="all"): a row goes only when all of subset is missing
DropNaAll(frame, subset) ==
    LET Keep(row) == \E n \in subset : ~IsNa(Cell(frame, row, n)) IN
    [frame EXCEPT !.rows = SelectSeq(frame.rows, Keep)]

\* df.dropna(subset=[...], inplace=True)
DropNa(frame, subset) ==
    LET Keep(row) == \A n \in subset : ~IsNa(Cell(frame, row, n)) IN
    [frame EXCEPT !.rows = SelectSeq(frame.rows, Keep)]

\* Series.sum() of column name over rows
RECURSIVE SumRows(_, _, _)
SumRows(frame, rows, name) ==
    IF rows = <<>> THEN 0
    ELSE Cell(frame, Head(rows), name).v + SumRows(frame, Tail(rows), name)

\* df[df[profit_col] < 0]
loss_df(frame, m) ==
    LET Neg(row) == Cell(frame, row, m["profit"]).v < 0 IN
    SelectSeq(frame.rows, Neg)

\* (mutation) Total Loss summed over every row
KpisAllRows(frame, m) ==
    [total_sales |-> SumRows(frame, frame.rows, m["sales"]),
     total_profit |-> SumRows(frame, frame.rows, m["profit"]),
     total_loss |-> SumRows(frame, frame.rows, m["profit"])]

\* lines 135-137
Kpis(frame, m) ==
    [total_sales |-> SumRows(frame, frame.rows, m["sales"]),
     total_profit |-> SumRows(frame, frame.rows, m["profit"]),
     total_loss |-> SumRows(frame, loss_df(frame, m), m["profit"])]

\* the order of group keys: groupby sorts its keys
KindRank(k) == CASE k = "num" -> 1 [] k = "ts" -> 2 [] k = "date" -> 3 [] OTHER -> 4
KeyLess(a, b) ==
    \/ KindRank(a.kind) < KindRank(b.kind)
    \/ a.kind = b.kind /\ a.v < b.v

RECURSIVE SortKeys(_)
SortKeys(S) ==
    IF S = {} THEN <<>>
    ELSE LET lo == CHOOSE x \in S : \A y \in S \ {x} : KeyLess(x, y)
         IN <<lo>> \o SortKeys(S \ {lo})

\* rows.groupby(by)[name].sum(): one entry per key that is not missing, in key order
GroupSum(frame, rows, by, name) ==
    LET keys == SortKeys({Cell(frame, rows[i], by) : i \in 1..Len(rows)}
                             \ {c \in {Cell(frame, rows[i], by) : i \in 1..Len(rows)} : IsNa(c)})
    IN [g \in 1..Len(keys) |->
          LET InGroup(row) == Cell(frame, row, by) = keys[g] IN
          [key |-> keys[g], value |-> SumRows(frame, SelectSeq(rows, InGroup), name)]]

\* Series.sort_values(): ascending; entries of equal value keep their order
\* (how ties are ordered is immaterial to the properties below)
InsertByValue(t, x) ==
    LET k == Cardinality({i \in 1..Len(t) : t[i].value <= x.value})
    IN SubSeq(t, 1, k) \o <<x>> \o SubSeq(t, k + 1, Len(t))

RECURSIVE SortPrefix(_, _)
SortPrefix(s, n) ==
    IF n = 0 THEN <<>> ELSE InsertByValue(SortPrefix(s, n - 1), s[n])

sort_values(s) == SortPrefix(s, Len(s))

\* Series.head(n)
head(s, n) == SubSeq(s, 1, IF Len(s) < n THEN Len(s) ELSE n)

TopN == 5

\* (mutation) the sums taken over all rows of the frame
WorstLossesAllRows(frame, m) ==
    head(sort_values(GroupSum(frame, frame.rows, m["product"], m["profit"])), TopN)

\* loss_df.groupby(product_col)[profit_col].sum().sort_values().head(5)
WorstLosses(frame, m) ==
    head(sort_values(GroupSum(frame, loss_df(frame, m), m["product"], m["profit"])), TopN)

\* df.groupby(df[date_col].dt.date)[profit_col].sum()
daily(frame, m) == GroupSum(frame, frame.rows, m["date"], m["profit"])

\* f"₹{v:,.2f}": sign, groups of three digits, two decimals
RECURSIVE Thousands(_)
Thousands(n) == IF n < 1000 THEN <<n>> ELSE Thousands(n \div 1000) \o <<n % 1000>>
Money(v) ==
    [sign |-> IF v < 0 THEN "-" ELSE "",
     groups |-> Thousands(IF v < 0 THEN -v ELSE v),
     decimals |-> <<0, 0>>]

\* lines 187-195: the rows appended to table_data after its header
PdfTable(frame, m) ==
    LET t == WorstLosses(frame, m) IN
    [i \in 1..Len(t) |-> <<t[i].key, Money(t[i].value)>>]

\* generate_pdf
generate_pdf(frame, m, kpis) ==
    [totals |-> <<Money(kpis.total_sales), Money(kpis.total_profit), Money(kpis.total_loss)>>,
     noLosses |-> loss_df(frame, m) = <<>>,
     table |-> IF loss_df(frame, m) # <<>> THEN PdfTable(frame, m) ELSE <<>>]


----------------------------------------------------------------------------
(* Inputs: headers, uploads, and the arguments given to find_column *)

ResolveNames ==
    {nOrderDate, nSales, nRevenue, nAmount, nProfit, nMargin, nCategory,
     nProductCategory, nItem, nQty}

SeqsUpTo(S, n) == UNION {[1..k -> S] : k \in 0..n}

ColumnSeqs ==
    {c \in SeqsUpTo(ResolveNames, MaxResolveCols) :
        \A i, j \in 1..Len(c) : i # j => c[i] # c[j]}

KeyLists ==
    {RoleKeys(r) : r \in RoleSet} \cup {<<>>, <<kDATE>>, <<kItem, kSales>>}

\* the header of the reference table
SalesHeader == <<nOrderDate, nSales, nProfit, nCategory, nProduct>>

\* rows under SalesHeader: texts 1, 2 are categories "A", "B"; 24..26 products
\* "X".."Z"; 50 is the text "n/a"; days 19723, 19724 are 2024-01-01, -02
RowPalette ==
    {<<DateText(19723), Num(100), Num(20), Text(1), Text(24)>>,
     <<DateText(19724), Num(50), Num(-10), Text(2), Text(24)>>,
     <<DateText(19723), Text(50), Num(-5), Text(1), Text(25)>>,
     <<DateText(19723), Num(10), Num(0), Text(1), Text(26)>>,
     <<DateText(19723), Num(10), Num(-20), Text(1), Blank>>,
     <<Text(50), Num(10), Num(-5), Text(2), Text(25)>>,
     <<DateText(19724), Num(10), Text(50), Text(2), Text(24)>>}

PaletteFiles ==
    {[name |-> "data.csv", cols |-> SalesHeader, rows |-> rs] :
        rs \in SeqsUpTo(RowPalette, MaxRows)}

\* tables of n loss-making rows, one product each, products in descending order
LossFiles ==
    {[name |-> "losses.csv", cols |-> SalesHeader,
      rows |-> [i \in 1..Len(ps) |->
                  <<DateText(19723), Num(10), Num(ps[i]), Text(1), Text(100 - i)>>]] :
        ps \in UNION {[1..n -> {-2, -1}] : n \in 1..MaxLossRows}}

\* the reference table of the specification's scenario
ScenarioFile ==
    [name |-> "data.csv", cols |-> SalesHeader,
     rows |-> <<<<DateText(19723), Num(100), Num(20), Text(1), Text(24)>>,
                <<DateText(19723), Num(50), Num(-10), Text(1), Text(25)>>,
                <<DateText(19724), Num(200), Num(30), Text(2), Text(24)>>>>]

\* a sheet without columns
EmptySheet == [name |-> "empty.xlsx", cols |-> <<>>, rows |-> <<>>]

\* no column matches any role
QtyFile == [name |-> "qty.csv", cols |-> <<nQty>>, rows |-> <<<<Num(3)>>>>]

\* only the date column matches a keyword of the script
AmountFile ==
    [name |-> "amount.csv",
     cols |-> <<nDate, nAmount, nMargin, nSegment, nName>>,
     rows |-> <<<<DateText(19723), Num(100), Num(20), Text(1), Text(24)>>>>]

\* one column matches two roles, another matches none
MergedFile ==
    [name |-> "merged.xlsx",
     cols |-> <<nOrderDate, nQty, nRevenue, nNetProfit, nProductCategory>>,
     rows |-> <<<<DateText(19723), Num(2), Num(100), Num(-20), Text(24)>>,
                <<Text(50), Num(1), Num(50), Num(10), Text(25)>>>>]

\* two columns match the product role
ItemFile ==
    [name |-> "item.csv",
     cols |-> <<nOrderDate, nSales, nProfit, nCategory, nItem, nProduct>>,
     rows |-> <<<<DateText(19723), Num(100), Num(-20), Text(1), Text(7), Text(24)>>,
                <<DateText(19724), Num(50), Num(-10), Text(2), Text(8), Text(24)>>>>]

OtherFiles == {EmptySheet, QtyFile, AmountFile, MergedFile, ItemFile}

AppFiles == {ScenarioFile} \cup OtherFiles
AnalysisFiles == PaletteFiles \cup LossFiles \cup AppFiles

NoFile == [name |-> "", cols |-> <<>>, rows |-> <<>>]

----------------------------------------------------------------------------
(* The page and the session *)

NoMapping == [r \in RoleSet |-> None]

EmptyOut ==
    [msg |-> "", error |-> "", metrics |-> <<>>, daily |-> <<>>,
     loss |-> <<>>, pdf |-> <<>>]

NoEvent == [type |-> "none", email |-> "", password |-> ""]

EmptySession == [k \in {} |-> FALSE]

\* st.session_state.logged_in, where the key exists
LoggedIn == "logged_in" \in DOMAIN session /\ session["logged_in"]

\* lines 50-51: the flag is created on the first run of a session
WithFlag(ss) ==
    IF "logged_in" \in DOMAIN ss THEN ss
    ELSE [k \in DOMAIN ss \cup {"logged_in"} |->
            IF k = "logged_in" THEN FALSE ELSE ss[k]]

\* lines 63-64
SignedIn(ss, email) ==
    [k \in DOMAIN ss \cup {"logged_in", "user"} |->
        IF k = "logged_in" THEN TRUE ELSE IF k = "user" THEN email ELSE ss[k]]

----------------------------------------------------------------------------
(* User interactions: each one starts a run of the script *)

StartRun(e) ==
    /\ pc = "idle"
    /\ pc' = "gate"
    /\ event' = e
    /\ file' = NoFile
    /\ df' = NoDf
    /\ mapping' = NoMapping
    /\ out' = EmptyOut
    /\ UNCHANGED <<users, firstReg, session, rcols, rkeys, rres>>

\* the Login button: rendered only by a run that found logged_in false
ClickLogin ==
    /\ ~LoggedIn
    /\ \E e \in Emails, p \in Passwords :
          StartRun([type |-> "login", email |-> e, password |-> p])

\* the Register button
ClickRegister ==
    /\ ~LoggedIn
    /\ \E e \in Emails, p \in Passwords :
          StartRun([type |-> "register", email |-> e, password |-> p])

\* the Logout button of the sidebar: rendered only when logged in
ClickLogout ==
    /\ LoggedIn
    /\ StartRun([type |-> "logout", email |-> "", password |-> ""])

\* the file uploader or a selectbox: rendered only when logged in
Interact ==
    /\ LoggedIn
    /\ StartRun([type |-> "widget", email |-> "", password |-> ""])

----------------------------------------------------------------------------
(* LOGIN / REGISTER: lines 50-78 *)

\* Login clicked
GateLogin ==
    /\ pc = "gate"
    /\ ~WithFlag(session)["logged_in"]
    /\ event.type = "login"
    /\ IF login_user(users, event.email, event.password)
       THEN /\ session' = SignedIn(WithFlag(session), event.email)
            /\ pc' = "gate"             \* st.rerun()
            /\ event' = NoEvent
            /\ out' = EmptyOut
       ELSE /\ session' = WithFlag(session)
            /\ pc' = "idle"             \* st.stop()
            /\ event' = event
            /\ out' = [out EXCEPT !.msg = "Invalid login"]
    /\ UNCHANGED <<users, firstReg, file, df, mapping, rcols, rkeys, rres>>

\* Register clicked
GateRegister ==
    /\ pc = "gate"
    /\ ~WithFlag(session)["logged_in"]
    /\ event.type = "register"
    /\ \E salt \in Salts :
          LET r == create_user(users, event.email, event.password, salt) IN
          /\ users' = r.table
          /\ firstReg' =
                IF r.ok /\ event.email \notin DOMAIN firstReg
                THEN [e \in DOMAIN firstReg \cup {event.email} |->
                        IF e = event.email THEN event.password ELSE firstReg[e]]
                ELSE firstReg
          /\ out' = [out EXCEPT !.msg =
                        IF r.ok THEN "Account created Successfully. Please login."
                        ELSE "User already exists"]
    /\ session' = WithFlag(session)
    /\ pc' = "idle"                     \* st.stop()
    /\ UNCHANGED <<event, file, df, mapping, rcols, rkeys, rres>>

\* no button clicked: the form is shown and the run stops
GateStop ==
    /\ pc = "gate"
    /\ ~WithFlag(session)["logged_in"]
    /\ event.type \notin {"login", "register"}
    /\ session' = WithFlag(session)
    /\ pc' = "idle"                     \* st.stop()
    /\ UNCHANGED <<users, firstReg, event, file, df, mapping, out, rcols, rkeys, rres>>

\* logged in: the script goes on below line 78
GatePass ==
    /\ pc = "gate"
    /\ WithFlag(session)["logged_in"]
    /\ pc' = "sidebar"
    /\ UNCHANGED <<users, firstReg, session, event, file, df, mapping, out,
                   rcols, rkeys, rres>>

----------------------------------------------------------------------------
(* SIDEBAR: lines 83-86 *)

SidebarLogout ==
    /\ pc = "sidebar"
    /\ event.type = "logout"
    /\ session' = EmptySession          \* st.session_state.clear()
    /\ pc' = "gate"                     \* st.rerun()
    /\ event' = NoEvent
    /\ out' = EmptyOut
    /\ UNCHANGED <<users, firstReg, file, df, mapping, rcols, rkeys, rres>>

SidebarPass ==
    /\ pc = "sidebar"
    /\ event.type # "logout"
    /\ pc' = "upload"
    /\ UNCHANGED <<users, firstReg, session, event, file, df, mapping, out,
                   rcols, rkeys, rres>>


----------------------------------------------------------------------------
(* FILE UPLOAD: lines 106-113 *)

\* no file in the uploader: st.stop()
UploadNone ==
    /\ pc = "upload"
    /\ pc' = "idle"
    /\ UNCHANGED <<users, firstReg, session, event, file, df, mapping, out,
                   rcols, rkeys, rres>>

\* the uploader holds a file: it got there by an interaction with the page
UploadFile(files) ==
    /\ pc = "upload"
    /\ event.type = "widget"
    /\ \E f \in files :
          /\ file' = f
          /\ df' = ReadFile(f)
    /\ pc' = "mapping"
    /\ UNCHANGED <<users, firstReg, session, event, mapping, out, rcols, rkeys, rres>>

----------------------------------------------------------------------------
(* COLUMN MAPPING: lines 118-122 *)

\* the column each selectbox preselects
Defaults(cols) == [r \in RoleSet |-> find_column(cols, RoleKeys(r))]

\* what the user can have selected: the preselection, or one box changed
UserSelections(cols, d) ==
    {d} \cup {[d EXCEPT ![r] = cols[i]] : r \in RoleSet, i \in 1..Len(cols)}

\* cols.index(None) raises ValueError: the run ends with the traceback
MappingCrash ==
    /\ pc = "mapping"
    /\ \E r \in RoleSet : Defaults(df.cols)[r] = None
    /\ out' = [out EXCEPT !.error = "ValueError"]
    /\ pc' = "idle"
    /\ UNCHANGED <<users, firstReg, session, event, file, df, mapping, rcols, rkeys, rres>>

MappingOk ==
    /\ pc = "mapping"
    /\ \A r \in RoleSet : Defaults(df.cols)[r] # None
    /\ \E m \in UserSelections(df.cols, Defaults(df.cols)) : mapping' = m
    /\ pc' = "cleaning"
    /\ UNCHANGED <<users, firstReg, session, event, file, df, out, rcols, rkeys, rres>>

----------------------------------------------------------------------------
(* DATA CLEANING: lines 127-130 *)

Coercion ==
    /\ pc = "cleaning"
    /\ df' = Coerce(df, mapping)
    /\ pc' = "dropna"
    /\ UNCHANGED <<users, firstReg, session, event, file, mapping, out, rcols, rkeys, rres>>

Dropna ==
    /\ pc = "dropna"
    /\ df' = DropNa(df, {mapping["date"], mapping["sales"], mapping["profit"]})
    /\ pc' = "kpis"
    /\ UNCHANGED <<users, firstReg, session, event, file, mapping, out, rcols, rkeys, rres>>

----------------------------------------------------------------------------
(* KPIs: lines 135-142 *)

KpiStep ==
    /\ pc = "kpis"
    /\ out' = [out EXCEPT !.metrics = <<Kpis(df, mapping)>>]
    /\ pc' = "daily"
    /\ UNCHANGED <<users, firstReg, session, event, file, df, mapping, rcols, rkeys, rres>>

----------------------------------------------------------------------------
(* PROFIT / LOSS OVER TIME: lines 147-149 *)

\* .dt exists only on a datetime column
DateIsDatetime == df.dtypes[Index(df.cols, mapping["date"])] = "datetime64"

DailyCrash ==
    /\ pc = "daily"
    /\ ~DateIsDatetime
    /\ out' = [out EXCEPT !.error = "AttributeError"]
    /\ pc' = "idle"
    /\ UNCHANGED <<users, firstReg, session, event, file, df, mapping, rcols, rkeys, rres>>

DailyOk ==
    /\ pc = "daily"
    /\ DateIsDatetime
    /\ out' = [out EXCEPT !.daily = <<daily(df, mapping)>>]
    /\ pc' = "loss"
    /\ UNCHANGED <<users, firstReg, session, event, file, df, mapping, rcols, rkeys, rres>>

----------------------------------------------------------------------------
(* LOSS ANALYSIS: lines 154-165 *)

LossStep ==
    /\ pc = "loss"
    /\ out' = [out EXCEPT !.loss =
                 <<[empty |-> loss_df(df, mapping) = <<>>,
                    table |-> IF loss_df(df, mapping) = <<>> THEN <<>>
                              ELSE WorstLosses(df, mapping)]>>]
    /\ pc' = "pdf"
    /\ UNCHANGED <<users, firstReg, session, event, file, df, mapping, rcols, rkeys, rres>>

----------------------------------------------------------------------------
(* PDF REPORT GENERATOR and DOWNLOAD BUTTON: lines 170-217 *)

PdfStep ==
    /\ pc = "pdf"
    /\ out' = [out EXCEPT !.pdf = <<generate_pdf(df, mapping, out.metrics[1])>>]
    /\ pc' = "idle"
    /\ UNCHANGED <<users, firstReg, session, event, file, df, mapping, rcols, rkeys, rres>>

----------------------------------------------------------------------------
(* find_column applied on its own *)

NotCalled == [called |-> FALSE, result |-> None]

Resolve ==
    /\ ~rres.called
    /\ rres' = [called |-> TRUE, result |-> find_column(rcols, rkeys)]
    /\ UNCHANGED <<users, firstReg, session, pc, event, file, df, mapping, out,
                   rcols, rkeys>>

----------------------------------------------------------------------------
(* Specifications *)

\* a new browser session on a new users.db, before the first run of the script
Init ==
    /\ users = {}
    /\ firstReg = NoHistory
    /\ session = EmptySession
    /\ pc = "gate"
    /\ event = NoEvent
    /\ file = NoFile
    /\ df = NoDf
    /\ mapping = NoMapping
    /\ out = EmptyOut
    /\ rcols = <<>>
    /\ rkeys = <<>>
    /\ rres = NotCalled

Next ==
    \/ ClickLogin
    \/ ClickRegister
    \/ ClickLogout
    \/ Interact
    \/ GateLogin
    \/ GateRegister
    \/ GateStop
    \/ GatePass
    \/ SidebarLogout
    \/ SidebarPass
    \/ UploadNone
    \/ UploadFile(AppFiles)
    \/ MappingCrash
    \/ MappingOk
    \/ Coercion
    \/ Dropna
    \/ KpiStep
    \/ DailyCrash
    \/ DailyOk
    \/ LossStep
    \/ PdfStep

Spec == Init /\ [][Next]_vars

\* the analysis alone: ann is registered and logged in, and works on the page
InitAnalysis ==
    /\ users = {[email |-> "ann@x", password |-> hashpw("pw1", "s1")]}
    /\ firstReg = [e \in {"ann@x"} |-> "pw1"]
    /\ session = SignedIn(WithFlag(EmptySession), "ann@x")
    /\ pc = "idle"
    /\ event = NoEvent
    /\ file = NoFile
    /\ df = NoDf
    /\ mapping = NoMapping
    /\ out = EmptyOut
    /\ rcols = <<>>
    /\ rkeys = <<>>
    /\ rres = NotCalled

NextAnalysis ==
    \/ Interact
    \/ GatePass
    \/ SidebarPass
    \/ UploadNone
    \/ UploadFile(AnalysisFiles)
    \/ MappingCrash
    \/ MappingOk
    \/ Coercion
    \/ Dropna
    \/ KpiStep
    \/ DailyCrash
    \/ DailyOk
    \/ LossStep
    \/ PdfStep

SpecAnalysis == InitAnalysis /\ [][NextAnalysis]_vars

\* find_column on every header and keyword list of the bounds
InitResolve ==
    /\ users = {}
    /\ firstReg = NoHistory
    /\ session = EmptySession
    /\ pc = "gate"
    /\ event = NoEvent
    /\ file = NoFile
    /\ df = NoDf
    /\ mapping = NoMapping
    /\ out = EmptyOut
    /\ rcols \in ColumnSeqs
    /\ rkeys \in KeyLists
    /\ rres = NotCalled

NextResolve == Resolve

SpecResolve == InitResolve /\ [][NextResolve]_vars


----------------------------------------------------------------------------
(* Properties of find_column (checked under SpecResolve) *)

\* the keyword sets as the specification lists them
ListedKeywords(role) ==
    CASE role = "date" -> {kDate}
      [] role = "sales" -> {kSales, kRevenue, kAmount}
      [] role = "profit" -> {kProfit, kMargin}
      [] role = "category" -> {kCategory, kSegment}
      [] role = "product" -> {kProduct, kItem, kName}

\* the keyword sets of the five calls of the column mapping
ScriptKeywords(role) ==
    CASE role = "date" -> {kDate}
      [] role = "sales" -> {kSales, kRevenue}
      [] role = "profit" -> {kProfit}
      [] role = "category" -> {kCategory}
      [] role = "product" -> {kProduct, kItem}

\* column i's lowercased name contains a keyword of K
Matches(cols, i, K) == \E k \in K : Contains(k, Lower(cols[i]))

\* the first column in column order that matches K, None without a match
FirstMatch(cols, K) ==
    IF \E i \in 1..Len(cols) : Matches(cols, i, K)
    THEN cols[CHOOSE i \in 1..Len(cols) :
                 /\ Matches(cols, i, K)
                 /\ \A h \in 1..(i - 1) : ~Matches(cols, h, K)]
    ELSE None

\* C4 as stated: for every header and every role, the suggestion is the first
\* column, in column order, whose lowercased name contains one of the keywords
\* date | sales, revenue, amount | profit, margin | category, segment |
\* product, item, name
C4_ListedKeywords ==
    \A r \in RoleSet :
        (rres.called /\ rkeys = RoleKeys(r))
            => rres.result = FirstMatch(rcols, ListedKeywords(r))

\* C4 amended: for every header and every role, the suggestion is the first
\* column, in column order, whose lowercased name contains one of the keywords
\* date | sales, revenue | profit | category | product, item; column order,
\* not keyword order, decides between two matching columns
C4_ScriptKeywords ==
    \A r \in RoleSet :
        (rres.called /\ rkeys = RoleKeys(r))
            => rres.result = FirstMatch(rcols, ScriptKeywords(r))

\* the product role on a header where "item" comes before "product": the
\* earlier column is suggested although its keyword is the later one
C4_Witness ==
    /\ rres.called
    /\ rkeys = RoleKeys("product")
    /\ rres.result = nItem
    /\ \E i \in 1..Len(rcols) : rcols[i] = nProductCategory

\* C5: the result of find_column is None or one of the given columns, and it
\* is None exactly when no given column contains a keyword, ignoring case
C5_ResultIsAColumn ==
    rres.called =>
        /\ \/ rres.result = None
           \/ \E i \in 1..Len(rcols) : rcols[i] = rres.result
        /\ rres.result = None <=>
              ~\E i \in 1..Len(rcols), j \in 1..Len(rkeys) :
                  Contains(Lower(rkeys[j]), Lower(rcols[i]))

\* an upper-case keyword finds a mixed-case column
C5_Witness ==
    /\ rres.called
    /\ rkeys = <<kDATE>>
    /\ rres.result = nOrderDate


----------------------------------------------------------------------------
(* Properties of the analysis (checked under SpecAnalysis) *)

\* the selection has been made in the current run
Mapped == mapping # NoMapping

\* two roles are mapped to one column
DuplicateMapping ==
    /\ Mapped
    /\ \E r1, r2 \in RoleSet : r1 # r2 /\ mapping[r1] = mapping[r2]

\* the uploaded table after the coercions of lines 127-129, before any row is dropped
Coerced == Coerce(ReadFile(file), mapping)

ValueAt(frame, i, role) == Cell(frame, frame.rows[i], mapping[role])

\* the run has executed dropna
Cleaned == Mapped /\ pc \notin {"cleaning", "dropna"}

\* C1 as stated: a selection with two roles on one column is rejected before
\* any coercion or aggregation: no column coerced, no row dropped, no metric
C1_DuplicateMappingRejected ==
    DuplicateMapping =>
        /\ pc \notin {"dropna", "kpis", "daily", "loss", "pdf"}
        /\ df = ReadFile(file)
        /\ out.metrics = <<>>

\* every cell of the role's column is missing after coercion
AllMissing(role) ==
    /\ Mapped
    /\ file.rows # <<>>
    /\ \A i \in 1..Len(file.rows) : IsNa(ValueAt(Coerced, i, role))

\* C2 as stated: when every Sales cell, or every Profit cell, is missing after
\* coercion, the analysis fails and produces no totals, daily series, loss
\* table or report
C2_AllMissingRejected ==
    (AllMissing("sales") \/ AllMissing("profit")) =>
        /\ out.metrics = <<>>
        /\ out.daily = <<>>
        /\ out.loss = <<>>
        /\ out.pdf = <<>>

\* some role has no matching column in the uploaded table
NoSuggestion ==
    /\ file # NoFile
    /\ \E r \in RoleSet : find_column(file.cols, RoleKeys(r)) = None

\* C3 as stated: when a role has no matching column the run neither fails
\* unhandled nor goes on to the coercion
C3_NoSuggestionHandled ==
    NoSuggestion =>
        /\ out.error = ""
        /\ pc \in {"mapping", "idle"}
        /\ out.metrics = <<>>

\* the indices of the rows of frame that miss none of Date, Sales, Profit
CompleteIn(frame) ==
    LET js == {Index(frame.cols, mapping[r]) : r \in {"date", "sales", "profit"}}
    IN {i \in 1..Len(frame.rows) : \A j \in js : ~IsNa(frame.rows[i][j])}

CompleteRows == CompleteIn(Coerced)

\* the k-th smallest element of a set of indices
Kth(S, k) == CHOOSE i \in S : Cardinality({j \in S : j < i}) = k - 1

RECURSIVE SumOver(_, _)
SumOver(f, S) ==
    IF S = {} THEN 0
    ELSE LET i == CHOOSE x \in S : TRUE IN f[i] + SumOver(f, S \ {i})

SalesOf == [i \in 1..Len(df.rows) |-> ValueAt(df, i, "sales").v]
ProfitOf == [i \in 1..Len(df.rows) |-> ValueAt(df, i, "profit").v]
NegativeRows == {i \in 1..Len(df.rows) : ProfitOf[i] < 0}

\* C7: totalSales and totalProfit are the sums of Sales and of Profit over the
\* surviving rows, totalLoss is the sum of the Profit values below zero; so
\* totalLoss <= 0, totalLoss <= totalProfit, and totalLoss = 0 without a
\* negative Profit
C7_Totals ==
    out.metrics # <<>> =>
        LET k == out.metrics[1] IN
        /\ k.total_sales = SumOver(SalesOf, 1..Len(df.rows))
        /\ k.total_profit = SumOver(ProfitOf, 1..Len(df.rows))
        /\ k.total_loss = SumOver(ProfitOf, NegativeRows)
        /\ k.total_loss <= 0
        /\ k.total_loss <= k.total_profit
        /\ NegativeRows = {} => k.total_loss = 0

\* gains, losses and a zero Profit in one table
C7_Witness ==
    /\ out.metrics # <<>>
    /\ out.metrics[1].total_loss < 0
    /\ out.metrics[1].total_loss < out.metrics[1].total_profit
    /\ \E i \in 1..Len(df.rows) : ProfitOf[i] = 0
    /\ \E i \in 1..Len(df.rows) : ProfitOf[i] > 0

\* the products that have a surviving row with negative Profit
LossProducts ==
    {ValueAt(df, i, "product") : i \in NegativeRows}
        \ {c \in {ValueAt(df, i, "product") : i \in NegativeRows} : IsNa(c)}

\* the sum of a product's negative Profit rows
LossOf(product) ==
    SumOver(ProfitOf, {i \in NegativeRows : ValueAt(df, i, "product") = product})

\* C8: the loss table lists only products with a negative-Profit row, each with
\* the sum of its negative rows alone (so below zero), most negative first,
\* the five worst when there are more and all of them otherwise; the table of
\* the PDF report is the displayed one
C8_LossTable ==
    out.loss # <<>> =>
        LET t == out.loss[1].table IN
        /\ out.loss[1].empty <=> NegativeRows = {}
        /\ \A i \in 1..Len(t) :
              /\ t[i].key \in LossProducts
              /\ t[i].value = LossOf(t[i].key)
              /\ t[i].value < 0
        /\ \A i, j \in 1..Len(t) : i < j =>
              t[i].key # t[j].key /\ t[i].value <= t[j].value
        /\ Len(t) = IF Cardinality(LossProducts) < 5
                    THEN Cardinality(LossProducts) ELSE 5
        /\ \A q \in LossProducts :
              (\A i \in 1..Len(t) : t[i].key # q) =>
                  \A i \in 1..Len(t) : t[i].value <= LossOf(q)
        /\ out.pdf # <<>> =>
              /\ out.pdf[1].noLosses <=> out.loss[1].empty
              /\ out.pdf[1].table =
                    [i \in 1..Len(t) |-> <<t[i].key, Money(t[i].value)>>]

\* more than five loss-making products: five are reported
C8_Witness ==
    /\ out.pdf # <<>>
    /\ Cardinality(LossProducts) > 5
    /\ Len(out.loss[1].table) = 5
    /\ Len(out.pdf[1].table) = 5
    /\ out.loss[1].table[1].value < out.loss[1].table[5].value


----------------------------------------------------------------------------
(* Properties of the login gate and of the users table (checked under Spec) *)

\* the run is in the part of the script below the sidebar
InAnalysis ==
    pc \in {"upload", "mapping", "cleaning", "dropna", "kpis", "daily", "loss", "pdf"}

\* the email is registered and the password hashes to the stored hash
MatchesStoredHash(email, password) ==
    \E r \in users :
        /\ r.email = email
        /\ r.password = hashpw(password, r.password.salt)

\* C9: logged_in starts false; the part of the script below the sidebar runs
\* only while logged_in is true; logged_in becomes true only by a Login whose
\* email is registered and whose password matches the stored hash, which
\* sets user to that email; Logout clears the session and starts over at
\* the gate
C9_LoginGate ==
    /\ ~LoggedIn
    /\ [](InAnalysis \/ file # NoFile \/ out.metrics # <<>> => LoggedIn)
    /\ [](LoggedIn => "user" \in DOMAIN session)
    /\ [][(~LoggedIn /\ LoggedIn') =>
            /\ pc = "gate"
            /\ event.type = "login"
            /\ MatchesStoredHash(event.email, event.password)
            /\ session'["user"] = event.email]_vars
    /\ [][(pc = "sidebar" /\ event.type = "logout") =>
            /\ ~LoggedIn'
            /\ "user" \notin DOMAIN session'
            /\ pc' = "gate"]_vars

\* bob has logged in and a run has produced the report
C9_Witness ==
    /\ LoggedIn
    /\ session["user"] = "bob@x"
    /\ pc = "idle"
    /\ out.pdf # <<>>

\* C10: the table holds at most one row per email, and it is the credential
\* of the first successful create_user of that email; create_user of a
\* registered email returns False and leaves the table as it is; login_user
\* never changes the table, and succeeds only for a registered email with the
\* password it was registered with
C10_UsersTable ==
    /\ [](\A r1, r2 \in users : r1.email = r2.email => r1 = r2)
    /\ [](\A r \in users :
            /\ r.email \in DOMAIN firstReg
            /\ r.password = hashpw(firstReg[r.email], r.password.salt))
    /\ [][(pc = "gate" /\ event.type = "register" /\ RowsOf(users, event.email) # {}) =>
            /\ users' = users
            /\ out'.msg = "User already exists"]_vars
    /\ [][users' # users => (pc = "gate" /\ event.type = "register")]_vars
    /\ [][(pc = "gate" /\ event.type = "login" /\ LoggedIn') =>
            /\ event.email \in DOMAIN firstReg
            /\ firstReg[event.email] = event.password]_vars

\* a second registration of an email was refused
C10_Witness ==
    /\ pc = "idle"
    /\ out.msg = "User already exists"
    /\ Cardinality(users) = 2

====
